---- MODULE Spec2Model ----
(***************************************************************************)
(* Base lifecycle manager of overlayfs-csi (src/src/lib.rs): the registry  *)
(* `lock: Mutex<HashMap<Base, HashSet<String>>>`, the bases root on disk,  *)
(* the sidecar pods that hold the scratch directories, and the three       *)
(* coordinator operations mount, unmount and cleanup (the reaper).         *)
(*                                                                         *)
(* Time is a clock in whole seconds.  A critical section of the tokio      *)
(* mutex is one action when the code holds the lock without awaiting       *)
(* (mount after create_pod, cleanup); unmount renames the scratch          *)
(* directory and writes the marker as two filesystem calls while holding   *)
(* the lock, so it is split between them and the lock holder is state.     *)
(* For one volume id the caller issues one call at a time (CSI contract).  *)
(* Failures of the environment (a command, a filesystem call, an API call) *)
(* are inputs of the actions; those that leave a trace in the state are    *)
(* counted, and a run injects at most MaxFaults of them.  A call that      *)
(* fails before it has changed anything is a stuttering step.              *)
(* read_dir of the bases root either fails as a whole or lists every       *)
(* directory under it: an error on a single entry, which bases() would     *)
(* skip, is not among the failures injected.                               *)
(***************************************************************************)
EXTENDS Integers, Sequences, FiniteSets, TLC

\* ---------------------------------------------------------------- bounds
Volumes == {"v1", "v2"}
\* a directory found under the bases root at start-up (left by an earlier run)
PreBase == "bx"
BaseNames == Volumes \cup {PreBase}
\* --max-age-s
MaxAgeS == 2
MaxClock == 2
\* mounts stacked on one target path
MaxMounts == 1
\* injected failures in one run
MaxFaults == 1

\* ------------------------------------------------------- file contents
\* what is found at <dir>/.as_base
NoFile == [kind |-> "nofile", t |-> 0]
Garbage == [kind |-> "garbage", t |-> 0]
\* the directory itself is gone: volume_dir after it was renamed away
Moved == [kind |-> "moved", t |-> 0]
\* OffsetDateTime::format(&Rfc3339) of the instant t
Rfc3339(t) == [kind |-> "rfc3339", t |-> t]

Restrict(f, S) == [x \in S |-> f[x]]
Put(f, k, val) == [x \in (DOMAIN f) \cup {k} |-> IF x = k THEN val ELSE f[x]]
Perms(S) == {s \in [1..Cardinality(S) -> S] : \A i, j \in 1..Cardinality(S) : s[i] = s[j] => i = j}

VARIABLES
    now,        \* OffsetDateTime::now_utc(), whole seconds
    basesRoot,  \* directories under flags.bases: name -> content of its .as_base
    mapping,    \* the HashMap inside `lock`: Base -> set of volume ids
    lockedBy,   \* holder of the tokio Mutex, "free" when nobody holds it
    pods,       \* the sidecar pod named after each volume id, as the API shows it
    scratch,    \* volume_dir of the volume's pod: content of its .as_base
    mounts,     \* mount table: for each target path the stack of mounts
    pc,         \* position of the call in flight for each volume id
    hist,       \* per volume: what a round trip of mount and unmount has to report
    faults,     \* failures injected so far
    last,       \* what the step just taken returned, for a cleanup or an unmount
    reaper      \* position of the reaper task in its loop, followed in LiveSpec

vars == <<now, basesRoot, mapping, lockedBy, pods, scratch, mounts, pc, hist, faults, last,
          reaper>>

\* values of last: no return to report
Other == [op |-> "other", v |-> "-", ok |-> TRUE, removed |-> {}, d0 |-> -1, um |-> FALSE]
\* cleanup returned, having removed these directories
Reaped(ok, removed) == [Other EXCEPT !.op = "cleanup", !.ok = ok, !.removed = removed]
\* unmount of v returned Ok; d0 >= 0 when the call before it on v was a mount that
\* returned Ok and found d0 mounts on the target, um is whether umount -f exited 0
Unmounted(v, trip) == [Other EXCEPT !.op = "unmount", !.v = v, !.d0 = trip.d0, !.um = trip.um]

\* the step injects a failure or not
Inject(failed) ==
    /\ failed => faults < MaxFaults
    /\ faults' = IF failed THEN faults + 1 ELSE faults

\* ------------------------------------------------------------ Base
\* Base::read_time: Err when the file is missing or does not parse
read_time(m) == IF m.kind = "rfc3339" THEN [ok |-> TRUE, t |-> m.t] ELSE [ok |-> FALSE, t |-> 0]

\* a variant of Base::valid that compares the age with <=
valid_le(m, clock, max_age_s) ==
    LET r == read_time(m) IN
    r.ok /\ clock - r.t >= 0 /\ clock - r.t <= max_age_s

\* Base::valid
valid(m, clock, max_age_s) ==
    LET r == read_time(m) IN
    IF ~r.ok THEN FALSE
    ELSE LET age == clock - r.t IN
         IF age < 0 THEN FALSE
         ELSE IF age < max_age_s THEN TRUE
         ELSE FALSE

\* Overlays::find_valid_base over the directory order `order`: Iterator::find
RECURSIVE find_valid_base(_, _, _)
find_valid_base(order, root, clock) ==
    IF order = <<>> THEN "none"
    ELSE IF valid(root[Head(order)], clock, MaxAgeS) THEN Head(order)
    ELSE find_valid_base(Tail(order), root, clock)

\* what find_valid_base can return now, over the orders read_dir can list in
Found == {find_valid_base(order, basesRoot, now) : order \in Perms(DOMAIN basesRoot)}

\* mapping.values().flatten().any(|v| v == id)
is_overlay(m, id) == \E b \in DOMAIN m : id \in m[b]

\* a variant of the loop that removes nothing
dissociate_none(m, id) == m

\* a variant of the loop that clears every set
dissociate_all(m, id) == [b \in DOMAIN m |-> {}]

\* for volumes in mapping.values_mut() { volumes.remove(id) }
dissociate(m, id) == [b \in DOMAIN m |-> m[b] \ {id}]

\* mapping.entry(base).or_default()
or_default(m, b) == IF b \in DOMAIN m THEN m ELSE Put(m, b, {})

Overlay(b) == [kind |-> "overlay", lower |-> b]
Bind == [kind |-> "bind", lower |-> "-"]
Top(stack) == stack[Len(stack)]

\* the call before this one on the volume was not a mount that returned Ok
NoTrip == [d0 |-> -1, um |-> FALSE]

TypeOK ==
    /\ now \in 0..MaxClock
    /\ DOMAIN basesRoot \subseteq BaseNames
    /\ DOMAIN mapping \subseteq BaseNames
    /\ \A b \in DOMAIN mapping : mapping[b] \subseteq Volumes
    /\ lockedBy \in Volumes \cup {"free"}
    /\ \A v \in Volumes : Len(mounts[v]) <= MaxMounts
    /\ faults \in 0..MaxFaults
    /\ reaper \in {"cleanup", "sleep"}

Init ==
    /\ now = 0
    /\ basesRoot \in {[b \in {} |-> NoFile]} \cup
            {[b \in {PreBase} |-> m] : m \in {Rfc3339(0), Rfc3339(MaxClock + 1)}}
    /\ mapping = [b \in {} |-> {}]
    /\ lockedBy = "free"
    /\ pods = [v \in Volumes |-> "none"]
    /\ scratch = [v \in Volumes |-> NoFile]
    /\ mounts = [v \in Volumes |-> <<>>]
    /\ pc = [v \in Volumes |-> "idle"]
    /\ hist = [v \in Volumes |-> NoTrip]
    /\ faults = 0
    /\ last = Other
    /\ reaper = "cleanup"

\* ------------------------------------------------------- environment
Tick ==
    /\ now < MaxClock
    /\ now' = now + 1
    /\ UNCHANGED <<reaper, basesRoot, mapping, lockedBy, pods, scratch, mounts, pc, hist, faults>>
    /\ last' = Other

\* the kubelet starts the sidecar pod
PodRunning(v) ==
    /\ pods[v] = "pending"
    /\ pods' = [pods EXCEPT ![v] = "running"]
    /\ UNCHANGED <<reaper, now, basesRoot, mapping, lockedBy, scratch, mounts, pc, hist, faults>>
    /\ last' = Other

\* the workload declares its scratch directory eligible: touch .as_base in the
\* root of its volume, which is the scratch directory when the target is bound
WorkloadMarks(v) ==
    /\ mounts[v] # <<>> /\ Top(mounts[v]) = Bind
    /\ scratch[v] = NoFile
    /\ scratch' = [scratch EXCEPT ![v] = Garbage]
    /\ UNCHANGED <<reaper, now, basesRoot, mapping, lockedBy, pods, mounts, pc, hist, faults>>
    /\ last' = Other

\* ------------------------------------------------------------ mount
\* a variant of create_pod called with the mutex held, as if mount took the lock
\* on its first line
create_pod_locking(v) ==
    /\ pc[v] = "idle"
    /\ lockedBy = "free"
    /\ \E apiOk \in BOOLEAN :
        IF apiOk /\ pods[v] = "none"
        THEN /\ pods' = [pods EXCEPT ![v] = "pending"]
             /\ pc' = [pc EXCEPT ![v] = "watch"]
             /\ lockedBy' = v
             /\ last' = Other
        ELSE UNCHANGED <<pods, pc, lockedBy, last>>
    /\ UNCHANGED <<reaper, now, basesRoot, mapping, scratch, mounts, hist, faults>>

\* Overlays::create_pod up to pods.create: the API refuses a name that is taken,
\* and mount returns the error
create_pod(v) ==
    /\ pc[v] = "idle"
    /\ \E apiOk \in BOOLEAN :
        IF apiOk /\ pods[v] = "none"
        THEN /\ pods' = [pods EXCEPT ![v] = "pending"]
             /\ pc' = [pc EXCEPT ![v] = "watch"]
             /\ last' = Other
        ELSE UNCHANGED <<pods, pc, last>>
    /\ UNCHANGED <<reaper, now, basesRoot, mapping, lockedBy, scratch, mounts, hist, faults>>

\* Overlays::watch_pod returning Ok(()) inside create_pod's loop; an Err restarts
\* the watch and changes nothing
watch_pod(v) ==
    /\ pc[v] = "watch"
    /\ \/ pods[v] = "running" /\ Inject(FALSE)  \* a Modified event, phase Running
       \/ pods[v] # "running" /\ Inject(TRUE)   \* the stream ended: the while loop ends
    /\ pc' = [pc EXCEPT ![v] = "ready"]
    /\ last' = Other
    /\ UNCHANGED <<reaper, now, basesRoot, mapping, lockedBy, pods, scratch, mounts, hist>>

\* a variant that keys the registry entry by the volume id
associate_by_id(m, b, id) == Put(m, id, or_default(m, id)[id] \cup {id})

\* mapping.entry(base).or_default().insert(id)
associate(m, b, id) == Put(m, b, or_default(m, b)[b] \cup {id})

\* a variant that never overlays
mount_branch_bind(found) == "bind"

\* the branch mount takes for what find_valid_base returned
mount_branch(found) == IF found # "none" THEN "overlay" ELSE "bind"

\* Overlays::mount from lock().await to the return
mount(v) ==
    /\ pc[v] = "ready"
    /\ lockedBy = "free"
    /\ Len(mounts[v]) < MaxMounts
    /\ \E failure \in {"none", "create_dir_all", "read_dir", "mount"}, found \in Found :
        LET branch == mount_branch(found) IN
        /\ Inject(failure # "none")
        /\ IF failure = "none"
           THEN /\ mounts' = [mounts EXCEPT ![v] =
                       Append(@, IF branch = "overlay" THEN Overlay(found) ELSE Bind)]
                /\ mapping' = IF branch = "overlay"
                              THEN associate(mapping, found, v)
                              ELSE mapping
                /\ hist' = [hist EXCEPT ![v] = [d0 |-> Len(mounts[v]), um |-> FALSE]]
           ELSE /\ hist' = [hist EXCEPT ![v] = NoTrip]
                /\ UNCHANGED <<mounts, mapping>>
    /\ pc' = [pc EXCEPT ![v] = "idle"]
    /\ last' = Other
    /\ UNCHANGED <<reaper, now, basesRoot, lockedBy, pods, scratch>>

\* ---------------------------------------------------------- cleanup
\* a variant of the filter that passes only markers older than the maximum age
expired_by_age(m, clock) == read_time(m).ok /\ clock - read_time(m).t >= MaxAgeS

\* the filter of the loop: |b| !b.valid(max_age_s)
expired(m, clock) == ~valid(m, clock, MaxAgeS)

\* a variant of the test that does not look at the set
unreferenced_any(m, b) == TRUE

\* a variant of the test that passes only bases the registry already knows
unreferenced_known(m, b) == b \in DOMAIN m /\ m[b] = {}

\* mapping.entry(base.clone()).or_default().is_empty()
unreferenced(m, b) == or_default(m, b)[b] = {}

\* the for loop of Overlays::cleanup over the directory order; remove_dir_all of
\* failAt fails, which ends the loop
RECURSIVE cleanup_loop(_, _, _, _)
cleanup_loop(order, st, failAt, clock) ==
    IF order = <<>> THEN st
    ELSE LET b == Head(order) IN
         IF ~expired(st.root[b], clock)
         THEN cleanup_loop(Tail(order), st, failAt, clock)
         ELSE LET m1 == or_default(st.map, b) IN
              IF unreferenced(st.map, b)
              THEN IF b = failAt
                   THEN [root |-> st.root, map |-> m1, ok |-> FALSE]
                   ELSE cleanup_loop(Tail(order),
                            [root |-> Restrict(st.root, (DOMAIN st.root) \ {b}),
                             map |-> Restrict(m1, (DOMAIN m1) \ {b}),
                             ok |-> TRUE],
                            failAt, clock)
              ELSE cleanup_loop(Tail(order), [st EXCEPT !.map = m1], failAt, clock)

\* Overlays::cleanup applied to a disk and a registry
cleanup_result(root, m, clock, enumOk, order, failAt) ==
    IF ~enumOk THEN [root |-> root, map |-> m, ok |-> FALSE]
    ELSE cleanup_loop(order, [root |-> root, map |-> m, ok |-> TRUE], failAt, clock)

\* what one call of Overlays::cleanup can do to this disk and this registry
cleanup_results(root, m, clock) ==
    {cleanup_result(root, m, clock, enumOk, order, failAt) :
        enumOk \in BOOLEAN, order \in Perms(DOMAIN root),
        failAt \in (DOMAIN root) \cup {"none"}}

\* Overlays::cleanup, one iteration of the reaper task
cleanup ==
    /\ lockedBy = "free"
    /\ \E r \in cleanup_results(basesRoot, mapping, now) :
        LET changed == r.root # basesRoot \/ r.map # mapping IN
        /\ basesRoot' = r.root
        /\ mapping' = r.map
        /\ Inject(~r.ok /\ changed)
        /\ last' = IF changed
                   THEN Reaped(r.ok, (DOMAIN basesRoot) \ (DOMAIN r.root))
                   ELSE last
    /\ UNCHANGED <<reaper, now, lockedBy, pods, scratch, mounts, pc, hist>>

\* the body of the loop in the task spawned by from_flags: one call of cleanup,
\* whose Err is logged and dropped.  Every iteration is a step of its own here.
\* read_dir succeeds, and remove_dir_all can fail, in any iteration and without
\* a count, on the one directory the driver did not create
reaper_cleanup ==
    /\ reaper = "cleanup"
    /\ lockedBy = "free"
    /\ \E order \in Perms(DOMAIN basesRoot), failAt \in {PreBase, "none"} :
        LET r == cleanup_result(basesRoot, mapping, now, TRUE, order, failAt) IN
        /\ basesRoot' = r.root
        /\ mapping' = r.map
        /\ last' = Reaped(r.ok, (DOMAIN basesRoot) \ (DOMAIN r.root))
    /\ reaper' = "sleep"
    /\ UNCHANGED <<now, lockedBy, pods, scratch, mounts, pc, hist, faults>>

\* tokio::time::sleep(BASE_CLEANUP_FREQ_S) returns
reaper_sleep ==
    /\ reaper = "sleep"
    /\ reaper' = "cleanup"
    /\ last' = Other
    /\ UNCHANGED <<now, basesRoot, mapping, lockedBy, pods, scratch, mounts, pc, hist, faults>>

\* ---------------------------------------------------------- unmount
\* a variant that never finds a valid base
no_valid_base_always(enumOk, found) == TRUE

\* a variant that takes an Err of find_valid_base for a base found: map_or(false, ..)
no_valid_base_strict(enumOk, found) == enumOk /\ found = "none"

\* let no_valid_base = self.find_valid_base().map_or(true, |o| o.is_none())
no_valid_base(enumOk, found) == IF enumOk THEN found = "none" ELSE TRUE

\* a variant of the test that never promotes
wants_promotion_never(isOverlay, noValidBase) == FALSE

\* if !is_overlay && no_valid_base
wants_promotion(isOverlay, noValidBase) == ~isOverlay /\ noValidBase

\* a variant of the test that finds the file in every directory
as_base_exists_any(m) == TRUE

\* as_base.exists() for the volume_dir of the pod
as_base_exists(m) == m.kind \notin {"nofile", "moved"}

\* Overlays::unmount from lock().await through pods.get(id).await to the rename,
\* which is refused when the destination directory exists (it holds a marker)
unmount_lock(v) ==
    /\ pc[v] = "idle"
    /\ lockedBy = "free"
    /\ \E enumOk, getOk, renameOk \in BOOLEAN, found \in Found :
        /\ IF wants_promotion(is_overlay(mapping, v), no_valid_base(enumOk, found))
           THEN IF getOk /\ pods[v] # "none"
                THEN IF as_base_exists(scratch[v])
                     THEN IF renameOk /\ v \notin DOMAIN basesRoot
                          THEN /\ basesRoot' = Put(basesRoot, v, scratch[v])
                               /\ scratch' = [scratch EXCEPT ![v] = Moved]
                               /\ pc' = [pc EXCEPT ![v] = "renamed"]
                               /\ lockedBy' = v
                               /\ last' = Other
                          ELSE UNCHANGED <<basesRoot, scratch, pc, lockedBy, last>>
                     ELSE /\ pc' = [pc EXCEPT ![v] = "skipped"]
                          /\ lockedBy' = v
                          /\ last' = Other
                          /\ UNCHANGED <<basesRoot, scratch>>
                ELSE UNCHANGED <<basesRoot, scratch, pc, lockedBy, last>>
           ELSE /\ pc' = [pc EXCEPT ![v] = "skipped"]
                /\ lockedBy' = v
                /\ last' = Other
                /\ UNCHANGED <<basesRoot, scratch>>
        /\ Inject(~enumOk /\ lockedBy' = v)
    /\ UNCHANGED <<reaper, now, mapping, pods, mounts, hist>>

\* a variant that leaves the marker file as the workload created it
write_time_untouched(m, clock) == m

\* Base::write_time: the file is overwritten with now_utc() in RFC 3339
write_time(m, clock) == Rfc3339(clock)

\* a variant that checks the exit status, as duct does without .unchecked()
umount_aborts_checked(res) == res # "exit0"

\* duct::cmd!("umount", "-f", mountpoint).unchecked().run()?: only a failure to
\* run the command is an Err
umount_aborts(res) == res = "spawn_failed"

\* the rest of the critical section: base.write_time() after a rename, the
\* registry update, umount -f (unchecked: its exit status is ignored, only a
\* failure to run it is an error), drop(mapping)
unmount_unlock(v) ==
    /\ pc[v] \in {"renamed", "skipped"}
    /\ lockedBy = v
    /\ lockedBy' = "free"
    /\ \E writeOk \in BOOLEAN, res \in {"exit0", "exit32", "spawn_failed"} :
        /\ Inject(\/ pc[v] = "renamed" /\ ~writeOk
                  \/ res = "spawn_failed"
                  \/ res = "exit32" /\ mounts[v] # <<>>)
        /\ IF pc[v] = "renamed" /\ ~writeOk
           THEN /\ pc' = [pc EXCEPT ![v] = "idle"]
                /\ hist' = [hist EXCEPT ![v] = NoTrip]
                /\ UNCHANGED <<basesRoot, mapping, mounts>>
           ELSE /\ basesRoot' = IF pc[v] = "renamed"
                                THEN [basesRoot EXCEPT ![v] = write_time(@, now)]
                                ELSE basesRoot
                /\ mapping' = dissociate(mapping, v)
                /\ res = "exit0" => mounts[v] # <<>>
                /\ mounts' = [mounts EXCEPT ![v] =
                       IF res = "exit0" THEN SubSeq(@, 1, Len(@) - 1) ELSE @]
                /\ IF umount_aborts(res)
                   THEN /\ pc' = [pc EXCEPT ![v] = "idle"]
                        /\ hist' = [hist EXCEPT ![v] = NoTrip]
                   ELSE /\ pc' = [pc EXCEPT ![v] = "delete_pod"]
                        /\ hist' = [hist EXCEPT ![v].um = (res = "exit0")]
    /\ last' = Other
    /\ UNCHANGED <<reaper, now, pods, scratch>>

\* self.delete_pod(id).await? and the return of unmount; the API server deletes
\* in the background, and the kubelet reclaims the emptyDir
delete_pod(v) ==
    /\ pc[v] = "delete_pod"
    /\ \E apiOk \in BOOLEAN :
        /\ Inject(~apiOk)
        /\ IF apiOk /\ pods[v] # "none"
           THEN /\ pods' = [pods EXCEPT ![v] = "none"]
                /\ scratch' = [scratch EXCEPT ![v] = NoFile]
                /\ last' = Unmounted(v, hist[v])
           ELSE /\ last' = Other
                /\ UNCHANGED <<pods, scratch>>
    /\ hist' = [hist EXCEPT ![v] = NoTrip]
    /\ pc' = [pc EXCEPT ![v] = "idle"]
    /\ UNCHANGED <<reaper, now, basesRoot, mapping, lockedBy, mounts>>

\* ------------------------------------------------------ specification
Next ==
    \/ Tick
    \/ cleanup
    \/ \E v \in Volumes :
        \/ PodRunning(v)
        \/ WorkloadMarks(v)
        \/ create_pod(v)
        \/ watch_pod(v)
        \/ mount(v)
        \/ unmount_lock(v)
        \/ unmount_unlock(v)
        \/ delete_pod(v)

Spec == Init /\ [][Next]_vars

\* the driver starts on a bases root that is empty (a fresh emptyDir)
InitEmpty == Init /\ DOMAIN basesRoot = {}

SpecEmpty == InitEmpty /\ [][Next]_vars

\* the same system with the reaper task as a process of its own
LiveNext ==
    \/ Tick
    \/ reaper_cleanup
    \/ reaper_sleep
    \/ \E v \in Volumes :
        \/ PodRunning(v)
        \/ WorkloadMarks(v)
        \/ create_pod(v)
        \/ watch_pod(v)
        \/ mount(v)
        \/ unmount_lock(v)
        \/ unmount_unlock(v)
        \/ delete_pod(v)

\* the tokio runtime schedules the reaper task and its timer; the tokio Mutex
\* is fair (FIFO), so the reaper gets the lock if it is free again and again;
\* a critical section of unmount does not block
LiveSpec ==
    /\ Init /\ [][LiveNext]_vars
    /\ WF_vars(reaper_sleep)
    /\ SF_vars(reaper_cleanup)
    /\ \A v \in Volumes : WF_vars(unmount_unlock(v))

\* ------------------------------------------------------------ claims
\* validity as the claims define it: the marker parses and 0 <= clock - t < maxAge
Unexpired(m, clock, maxAge) ==
    m.kind = "rfc3339" /\ 0 <= clock - m.t /\ clock - m.t < maxAge

\* the base is on disk and not valid now
NotValid(root, b) == ~Unexpired(root[b], now, MaxAgeS)

\* volume w is in the registry set of base b
InSet(m, b, w) == b \in DOMAIN m /\ w \in m[b]

Referenced(m, b) == \E w \in Volumes : InSet(m, b, w)

\* C1, as stated: the reaper never removes a base directory that is the lower
\* layer of an overlay that is still mounted; every overlay in the mount table
\* has its lower directory on disk.  (Violated: unmount ignores the exit status
\* of umount -f and has already taken the volume out of the registry.)
C1_MountedOverlayKeepsBase ==
    \A v \in Volumes : \A i \in 1..Len(mounts[v]) :
        mounts[v][i].kind = "overlay" => mounts[v][i].lower \in DOMAIN basesRoot

\* C2: a step removes a base directory only when, before the step, the lock was
\* free for the reaper, the base was not valid and no volume was in its set; and
\* a reap leaves a base that is not valid but referenced on disk, marker and
\* registry entry untouched.
C2_ReapOnlyExpiredUnreferenced ==
    [][\A b \in DOMAIN basesRoot :
        /\ b \notin DOMAIN basesRoot' =>
              /\ lockedBy = "free" /\ lockedBy' = "free"
              /\ NotValid(basesRoot, b)
              /\ ~Referenced(mapping, b)
        /\ (last'.op = "cleanup" /\ NotValid(basesRoot, b) /\ Referenced(mapping, b)) =>
              /\ b \in DOMAIN basesRoot' /\ basesRoot'[b] = basesRoot[b]
              /\ b \in DOMAIN mapping' /\ mapping'[b] = mapping[b]]_vars

\* a reap has just removed a directory and left a referenced base that is not valid
C2_Witness ==
    /\ last.op = "cleanup" /\ last.removed # {}
    /\ \E b \in DOMAIN basesRoot : NotValid(basesRoot, b) /\ Referenced(mapping, b)

\* C3: every volume id is in the set of at most one base.
C3_AtMostOneBase ==
    \A v \in Volumes : \A b1, b2 \in DOMAIN mapping :
        (v \in mapping[b1] /\ v \in mapping[b2]) => b1 = b2

\* two bases are referenced at once, each by its own volume
C3_Witness ==
    \E b1, b2 \in DOMAIN mapping : b1 # b2 /\ mapping[b1] # {} /\ mapping[b2] # {}

\* C4: every base whose registry set is not empty has its directory on disk.
C4_ReferencedBaseOnDisk ==
    \A b \in DOMAIN mapping : mapping[b] # {} => b \in DOMAIN basesRoot

\* after a failed operation, a base that is no longer valid is still referenced
C4_Witness ==
    /\ faults > 0
    /\ \E b \in DOMAIN mapping :
          mapping[b] # {} /\ b \in DOMAIN basesRoot /\ NotValid(basesRoot, b)

\* mount of v returns Ok in this step
MountReturnsOk(v) == pc[v] = "ready" /\ pc'[v] = "idle" /\ hist'[v].d0 >= 0

UnmountStep(v) ==
    /\ pc'[v] # pc[v]
    /\ pc'[v] \in {"renamed", "skipped"} \/ pc[v] \in {"renamed", "skipped", "delete_pod"}

\* C6: when unmount of v returns Ok, v is in no set; and no step of unmount of v
\* changes which sets the other volumes are in.
C6_UnmountRegistry ==
    [][\A v \in Volumes :
        /\ (pc[v] = "delete_pod" /\ last'.op = "unmount" /\ last'.v = v) =>
              ~is_overlay(mapping', v)
        /\ UnmountStep(v) =>
              \A w \in Volumes \ {v}, b \in BaseNames :
                  InSet(mapping', b, w) <=> InSet(mapping, b, w)]_vars

\* unmount has just returned Ok while another volume is in a set
C6_Witness ==
    /\ last.op = "unmount"
    /\ \E w \in Volumes \ {last.v} : is_overlay(mapping, w)

C8_RoundTripUnmounts ==
    (last.op = "unmount" /\ last.d0 >= 0) =>
        ~is_overlay(mapping, last.v) /\ mounts[last.v] = <<>>

\* C8, amended: after mount and then unmount of v both returned Ok, v is in no
\* set; the mount that call made is gone exactly when umount -f exited 0, and
\* is still on the target otherwise.
C8_RoundTripRegistry ==
    (last.op = "unmount" /\ last.d0 >= 0) =>
        /\ ~is_overlay(mapping, last.v)
        /\ Len(mounts[last.v]) = IF last.um THEN last.d0 ELSE last.d0 + 1

\* a round trip has just ended with umount -f exiting 0
C8_Witness ==
    /\ last.op = "unmount" /\ last.d0 >= 0 /\ last.um
    /\ Len(mounts[last.v]) = last.d0

Markers == {NoFile, Garbage} \cup {Rfc3339(t) : t \in (0 - 1)..(MaxClock + 1)}

\* C10: Base::valid is true exactly when the marker parses and
\* 0 <= now - t < max_age_s; find_valid_base returns only a base that is valid
\* now, and returns none exactly when no base on disk is valid.
C10_ValidBase ==
    /\ \A m \in Markers \cup {basesRoot[b] : b \in DOMAIN basesRoot}, maxAge \in 0..(MaxAgeS + 1) :
          valid(m, now, maxAge) <=> Unexpired(m, now, maxAge)
    /\ \A order \in Perms(DOMAIN basesRoot) :
          LET f == find_valid_base(order, basesRoot, now) IN
          /\ f # "none" => f \in DOMAIN basesRoot /\ ~NotValid(basesRoot, f)
          /\ f = "none" <=> \A b \in DOMAIN basesRoot : NotValid(basesRoot, b)

\* on disk at once: a marker aged exactly max_age_s and a valid one
C10_Witness ==
    \E b1, b2 \in DOMAIN basesRoot :
        /\ basesRoot[b1].kind = "rfc3339" /\ now - basesRoot[b1].t = MaxAgeS
        /\ ~NotValid(basesRoot, b2)

Marked(v) == scratch[v].kind \in {"garbage", "rfc3339"}

\* no base on disk is valid now
NoValidBase == \A b \in DOMAIN basesRoot : NotValid(basesRoot, b)

\* unmount of v is called with v's pod in place and can take the lock
UnmountCallable(v) == pc[v] = "idle" /\ lockedBy = "free" /\ pods[v] # "none"

\* unmount of v takes the lock and goes on, with or without a rename
UnmountProceeds(v) == pc[v] = "idle" /\ pc'[v] \in {"renamed", "skipped"}

\* the call of unmount on v promotes in this step: it renames the scratch
Renames(v) == pc[v] = "idle" /\ pc'[v] = "renamed"

\* the rest of the claim, common to both statements: a rename followed by the
\* end of the critical section without an error leaves base v with the time of
\* the write as its marker; a step of unmount other than the rename and the
\* marker write leaves the base directories and their markers as they were
PromotionEffect(v) ==
    /\ (pc[v] = "renamed" /\ pc'[v] = "delete_pod") =>
          v \in DOMAIN basesRoot' /\ basesRoot'[v] = Rfc3339(now)
    /\ (UnmountStep(v) /\ pc[v] # "renamed" /\ pc'[v] # "renamed") =>
          basesRoot' = basesRoot

\* C12, as stated: unmount of v promotes the scratch directory to base v with a
\* fresh marker if and only if v is in no set, no base is valid and the scratch
\* holds the marker file; otherwise it leaves the bases and their markers alone.
C12_PromotesIff ==
    /\ [](\A v \in Volumes :
            (UnmountCallable(v) /\ ~is_overlay(mapping, v) /\ NoValidBase /\ Marked(v)) =>
                ENABLED (unmount_lock(v) /\ Renames(v)))
    /\ [][\A v \in Volumes :
            /\ Renames(v) => (~is_overlay(mapping, v) /\ NoValidBase /\ Marked(v))
            /\ (UnmountProceeds(v) /\ ~is_overlay(mapping, v) /\ NoValidBase /\ Marked(v)) =>
                  Renames(v)
            /\ PromotionEffect(v)]_vars

\* C12, amended: unmount of v attempts the promotion if and only if v is in no
\* set, the scratch holds the marker file, and no base is valid or the
\* enumeration of the bases root failed; the rename can succeed if and only if
\* no directory named v is in the bases root already.
C12_PromotionAttempt ==
    /\ [](\A v \in Volumes :
            (UnmountCallable(v) /\ ~is_overlay(mapping, v) /\ NoValidBase /\ Marked(v)) =>
                ((ENABLED (unmount_lock(v) /\ Renames(v))) <=> v \notin DOMAIN basesRoot))
    /\ [][\A v \in Volumes :
            /\ Renames(v) =>
                  /\ ~is_overlay(mapping, v) /\ Marked(v)
                  /\ NoValidBase \/ faults' = faults + 1
                  /\ v \notin DOMAIN basesRoot
            /\ (UnmountProceeds(v) /\ ~is_overlay(mapping, v) /\ NoValidBase /\ Marked(v)) =>
                  Renames(v)
            /\ PromotionEffect(v)]_vars

\* a volume has been promoted while another base was valid, after the
\* enumeration of the bases root failed in its unmount
C12_Witness ==
    \E v \in Volumes :
        /\ pc[v] = "delete_pod" /\ v \in DOMAIN basesRoot /\ basesRoot[v] = Rfc3339(now)
        /\ \E b \in (DOMAIN basesRoot) \ {v} : ~NotValid(basesRoot, b)

\* C13: promotion is atomic with respect to reap and mount.  The rename and the
\* marker write are in one critical section: between them the lock is held by
\* the unmount, and while it is held no step changes the bases root or the
\* registry and no mount decides; the critical section ends, unless with an
\* error, with the marker of base v equal to the time of the write; whenever the
\* lock is free a promoted directory without a timestamp exists only after a
\* failed marker write; and no step removes a base that is valid.
C13_PromotionAtomic ==
    /\ [](\A v \in Volumes :
            /\ pc[v] = "renamed" => (lockedBy = v /\ v \in DOMAIN basesRoot)
            /\ (lockedBy = "free" /\ v \in DOMAIN basesRoot
                    /\ basesRoot[v].kind # "rfc3339") => faults > 0)
    /\ [][\A v \in Volumes :
            /\ (lockedBy = v /\ lockedBy' = v) =>
                  /\ basesRoot' = basesRoot /\ mapping' = mapping
                  /\ \A w \in Volumes : ~(pc[w] = "ready" /\ pc'[w] = "idle")
            /\ (pc[v] = "renamed" /\ pc'[v] # "renamed") =>
                  /\ lockedBy' = "free"
                  /\ pc'[v] = "delete_pod" =>
                        v \in DOMAIN basesRoot' /\ basesRoot'[v] = Rfc3339(now)
            /\ \A b \in DOMAIN basesRoot :
                  b \notin DOMAIN basesRoot' => NotValid(basesRoot, b)]_vars

\* a promotion has completed, the lock is free again, and a mount of another
\* volume that waited for the lock is about to decide with the fresh base on disk
C13_Witness ==
    \E v, w \in Volumes :
        /\ v # w /\ lockedBy = "free" /\ pc[v] = "delete_pod"
        /\ v \in DOMAIN basesRoot /\ basesRoot[v] = Rfc3339(now)
        /\ pc[w] = "ready"

\* the step belongs to the provisioning of v: pods.create, or the end of the wait
Provisioning(v) ==
    \/ pc[v] = "idle" /\ pc'[v] = "watch"
    \/ pc[v] = "watch" /\ pc'[v] = "ready"

\* C14: mount provisions the scratch before it takes the lock.  A mount that is
\* creating its pod or waiting for it never holds the lock, and its provisioning
\* steps leave the lock, the registry, the bases root and the mount table alone
\* and do not wait for the lock; while a mount is in provisioning, whoever holds
\* the lock can finish its critical section, and with the lock free a reap, the
\* decision of a mount of another volume and an unmount of another volume can
\* take it.  A mount changes the registry only in the step that holds the lock.
C14_ProvisioningOutsideLock ==
    /\ [](\A v \in Volumes :
            /\ pc[v] \in {"watch", "ready"} => lockedBy # v
            /\ (pc[v] = "watch" /\ pods[v] = "running") => ENABLED watch_pod(v)
            /\ pc[v] = "watch" =>
                  \A w \in Volumes \ {v} :
                      /\ lockedBy = w => ENABLED unmount_unlock(w)
                      /\ lockedBy = "free" =>
                            /\ ENABLED cleanup
                            /\ (pc[w] = "ready" /\ Len(mounts[w]) < MaxMounts) =>
                                  ENABLED (mount(w) /\ MountReturnsOk(w))
                            /\ (pc[w] = "idle" /\ is_overlay(mapping, w)) =>
                                  ENABLED (unmount_lock(w) /\ lockedBy' = w))
    /\ [][\A v \in Volumes :
            /\ Provisioning(v) =>
                  UNCHANGED <<lockedBy, mapping, basesRoot, mounts, scratch>>
            /\ (\E b \in BaseNames : InSet(mapping', b, v) /\ ~InSet(mapping, b, v)) =>
                  (pc[v] = "ready" /\ lockedBy = "free")]_vars

\* v1 is still waiting for its pod, which is pending, and meanwhile a mount and
\* an unmount of v2 have both returned Ok
C14_Witness ==
    \E v, w \in Volumes :
        /\ v # w /\ pc[v] = "watch" /\ pods[v] = "pending"
        /\ last.op = "unmount" /\ last.v = w /\ last.d0 >= 0

\* C15, as stated: provisioning returns, and mount goes on to the lock, only
\* after the watch has delivered a Modified event with phase Running; a watch
\* that ends in any other way is restarted.  (Violated: watch_pod returns Ok(())
\* when the stream ends, and create_pod takes that for the Running event.)
C15_ReadyOnlyAfterRunning ==
    \A v \in Volumes : pc[v] = "ready" => pods[v] = "running"

\* C16: a umount -f that exits non-zero does not abort unmount.  With nothing
\* mounted on the target (umount can only fail) the critical section can still
\* end without an error; every critical section that ends without an error,
\* umount having exited 0 or not, leaves v in no set, the lock free and the pod
\* deletion next; the pod is deleted only by that later step, which runs
\* without the lock and leaves the bases root alone, any rename being done.
C16_UmountFailureSwallowed ==
    /\ [](\A v \in Volumes :
            /\ (pc[v] = "skipped" /\ mounts[v] = <<>>) =>
                  ENABLED (unmount_unlock(v) /\ pc'[v] = "delete_pod" /\ faults' = faults)
            /\ pc[v] = "delete_pod" => (lockedBy # v /\ ~is_overlay(mapping, v)))
    /\ [][\A v \in Volumes :
            /\ (pc[v] \in {"renamed", "skipped"} /\ pc'[v] = "delete_pod") =>
                  /\ ~is_overlay(mapping', v) /\ lockedBy' = "free"
                  /\ ~hist'[v].um => mounts'[v] = mounts[v]
            /\ (pods[v] # "none" /\ pods'[v] = "none") =>
                  /\ pc[v] = "delete_pod" /\ lockedBy # v
                  /\ basesRoot' = basesRoot /\ lockedBy' = lockedBy]_vars

\* unmount has returned Ok and the pod is gone although umount -f exited
\* non-zero and left the mount on the target
C16_Witness ==
    /\ last.op = "unmount" /\ ~last.um
    /\ mounts[last.v] # <<>> /\ pods[last.v] = "none"

\* base b is on disk, not valid, and in no volume's use: the reaper should take it
Reapable(b) ==
    b \in DOMAIN basesRoot /\ NotValid(basesRoot, b) /\ ~Referenced(mapping, b)

\* C17, as stated: with the reaper scheduled fairly, a promoted base that is not
\* valid and unreferenced does not stay on disk for ever, also when the removal
\* of another directory fails in every iteration.  (Violated: cleanup returns at
\* the first remove_dir_all that fails, so the bases listed after it are not
\* looked at in that iteration.)
C17_EventuallyReaped ==
    \A b \in Volumes : []<>(~Reapable(b))

\* the two registries put every volume in the same sets (an entry with an empty
\* set counts as no entry)
SameSets(m1, m2) ==
    \A b \in BaseNames, w \in Volumes : InSet(m1, b, w) <=> InSet(m2, b, w)

\* the step is the return of an Err by mount of v, or by unmount of v from
\* inside its critical section (which started with the registry as it is now)
MountReturnsErr(v) == pc[v] = "ready" /\ pc'[v] = "idle" /\ hist'[v].d0 < 0
UnmountReturnsErr(v) == pc[v] \in {"renamed", "skipped"} /\ pc'[v] = "idle"

\* C18, as stated: when mount, unmount or reap returns an error, the registry
\* is as it was before the operation started.  (Violated: unmount takes the
\* volume out of every set before it runs umount, and returns the error of a
\* umount that could not be run with the volume already dissociated.)
C18_ErrorLeavesRegistry ==
    [][((\E v \in Volumes : MountReturnsErr(v) \/ UnmountReturnsErr(v))
            \/ (last'.op = "cleanup" /\ ~last'.ok)) =>
          SameSets(mapping, mapping')]_vars

\* C19: a failed enumeration of the bases root.  cleanup returns an error with
\* the disk and the registry as they were; a mount can fail, and a mount that
\* fails mounts nothing and leaves the registry alone; unmount does not fail on
\* it: it takes no_valid_base to be true, so that a marked volume that is in no
\* set is promoted even next to a valid base, and a volume that is in a set goes
\* on to the rest of unmount.  An empty bases root enumerates to no valid base.
C19_EnumerationFailure ==
    /\ [](/\ \A order \in Perms(DOMAIN basesRoot), failAt \in (DOMAIN basesRoot) \cup {"none"} :
                cleanup_result(basesRoot, mapping, now, FALSE, order, failAt)
                    = [root |-> basesRoot, map |-> mapping, ok |-> FALSE]
          /\ DOMAIN basesRoot = {} => Found = {"none"}
          /\ \A found \in Found \cup {"none"} : no_valid_base(FALSE, found)
          /\ \A v \in Volumes :
                /\ (pc[v] = "ready" /\ lockedBy = "free" /\ Len(mounts[v]) < MaxMounts
                        /\ faults < MaxFaults) =>
                      ENABLED (mount(v) /\ MountReturnsErr(v))
                /\ (UnmountCallable(v) /\ faults < MaxFaults) =>
                      /\ (~is_overlay(mapping, v) /\ Marked(v) /\ ~NoValidBase
                              /\ v \notin DOMAIN basesRoot) =>
                            ENABLED (unmount_lock(v) /\ Renames(v))
                      /\ is_overlay(mapping, v) =>
                            ENABLED (unmount_lock(v) /\ pc'[v] = "skipped"
                                        /\ faults' = faults + 1))
    /\ [][\A v \in Volumes :
            /\ MountReturnsErr(v) => (mounts' = mounts /\ mapping' = mapping)
            /\ (Renames(v) /\ ~NoValidBase) => faults' = faults + 1]_vars

\* the enumeration failed in an unmount, which has renamed the scratch of its
\* volume into the bases root next to a valid base and still holds the lock
C19_Witness ==
    \E v \in Volumes :
        /\ pc[v] = "renamed" /\ lockedBy = v /\ faults > 0
        /\ \E b \in (DOMAIN basesRoot) \ {v} : ~NotValid(basesRoot, b)

\* the bases on disk that are valid now
ValidBases(root) == {b \in DOMAIN root : Unexpired(root[b], now, MaxAgeS)}

====
